---- MODULE Spec2Model ----
(***************************************************************************)
(* A model of the XML viewer of public/app.js (class XMLViewer): the       *)
(* archive load (processFile / extractContents), the image index and its   *)
(* resolver (findImageUrl), the element renderer (renderElement and its    *)
(* helpers), the document selector and reset.                              *)
(*                                                                         *)
(* Strings that the code takes apart (paths, file names, image references, *)
(* text nodes, XML source text) are sequences of one-character strings.    *)
(* Tag and attribute names, which the code only compares and lower-cases,  *)
(* are TLA+ strings.  An HTML fragment is a sequence of tokens: a markup   *)
(* literal of the code is one token, a character of text is one token.     *)
(***************************************************************************)
EXTENDS Integers, Sequences, FiniteSets, TLC

(***************************************************************************)
(* Bounds of the model.                                                    *)
(***************************************************************************)
\* Blob URLs that URL.createObjectURL may hand out in one run of the model.
MaxBlobUrls == 3

\* Files that may be given to processFile between two resets.
MaxLoads == 2

(***************************************************************************)
(* String primitives of JavaScript, on sequences of characters.            *)
(***************************************************************************)
UpperLetters ==
  <<"A","B","C","D","E","F","G","H","I","J","K","L","M",
    "N","O","P","Q","R","S","T","U","V","W","X","Y","Z">>

LowerLetters ==
  <<"a","b","c","d","e","f","g","h","i","j","k","l","m",
    "n","o","p","q","r","s","t","u","v","w","x","y","z">>

Digits == <<"0","1","2","3","4","5","6","7","8","9">>

\* The characters String.prototype.trim and the regex class \s remove.
WhiteSpace == {" ", "\n", "\t", "\r"}

IndexIn(c, table) ==
  IF \E i \in 1..Len(table) : table[i] = c
    THEN CHOOSE i \in 1..Len(table) : table[i] = c
    ELSE 0

toLowerChar(c) ==
  IF IndexIn(c, UpperLetters) > 0 THEN LowerLetters[IndexIn(c, UpperLetters)] ELSE c

\* String.prototype.toLowerCase
toLowerCase(s) == [i \in 1..Len(s) |-> toLowerChar(s[i])]

\* Position of the last occurrence of character c in s, 0 when there is none.
LastIndexOf(s, c) ==
  IF \E i \in 1..Len(s) : s[i] = c
    THEN CHOOSE i \in 1..Len(s) : s[i] = c /\ \A j \in (i+1)..Len(s) : s[j] # c
    ELSE 0

\* s.split(c).pop(): what follows the last c, all of s when there is no c.
SplitPop(s, c) == SubSeq(s, LastIndexOf(s, c) + 1, Len(s))

\* s.replace(/\.[^.]+$/, ''): drops the final extension, a dot followed by
\* at least one non-dot character up to the end.
stripExtension(s) ==
  LET d == LastIndexOf(s, ".")
  IN  IF d > 0 /\ d < Len(s) THEN SubSeq(s, 1, d - 1) ELSE s

\* String.prototype.startsWith / endsWith / includes
startsWith(s, p) == Len(p) <= Len(s) /\ SubSeq(s, 1, Len(p)) = p

endsWith(s, p) == Len(p) <= Len(s) /\ SubSeq(s, Len(s) - Len(p) + 1, Len(s)) = p

includes(s, p) == \E i \in 1..(Len(s) - Len(p) + 1) : SubSeq(s, i, i + Len(p) - 1) = p

\* String.prototype.trim
trim(s) ==
  IF \A i \in 1..Len(s) : s[i] \in WhiteSpace
    THEN <<>>
    ELSE LET first == CHOOSE i \in 1..Len(s) :
                        s[i] \notin WhiteSpace /\ \A j \in 1..(i-1) : s[j] \in WhiteSpace
             last  == CHOOSE i \in 1..Len(s) :
                        s[i] \notin WhiteSpace /\ \A j \in (i+1)..Len(s) : s[j] \in WhiteSpace
         IN  SubSeq(s, first, last)

RECURSIVE Flatten(_)
\* The concatenation of a sequence of sequences.
Flatten(ss) ==
  IF Len(ss) = 0
    THEN <<>>
    ELSE IF Len(ss) = 1
      THEN ss[1]
      ELSE LET half == Len(ss) \div 2
           IN  Flatten(SubSeq(ss, 1, half)) \o Flatten(SubSeq(ss, half + 1, Len(ss)))

(***************************************************************************)
(* The parsed document tree (DOM) and the DOM queries the code uses.       *)
(* null and '' are both falsy and the code only tests attribute values and *)
(* references for truthiness, so both are the empty sequence here.         *)
(***************************************************************************)
ElementNode(tag, attrs, kids) ==
  [nodeType |-> "ELEMENT_NODE", tagName |-> tag, attributes |-> attrs,
   childNodes |-> kids, data |-> <<>>]

TextNode(text) ==
  [nodeType |-> "TEXT_NODE", tagName |-> "#text", attributes |-> <<>>,
   childNodes |-> <<>>, data |-> text]

\* element.getAttribute(name); attributes is a sequence of <<name, value>>.
getAttribute(element, name) ==
  LET a == element.attributes
  IN  IF \E i \in 1..Len(a) : a[i][1] = name
        THEN a[CHOOSE i \in 1..Len(a) : a[i][1] = name][2]
        ELSE <<>>

\* element.children: the child nodes that are elements, in document order.
children(element) ==
  SelectSeq(element.childNodes, LAMBDA n : n.nodeType = "ELEMENT_NODE")

RECURSIVE textContent(_)
\* node.textContent: the text of the node's descendants, in document order.
textContent(node) ==
  IF node.nodeType = "TEXT_NODE"
    THEN node.data
    ELSE Flatten([i \in 1..Len(node.childNodes) |-> textContent(node.childNodes[i])])

RECURSIVE descendants(_, _)
\* The descendant elements of an element in document order, each with the set
\* of tag names of its proper ancestors (anc: those of the element itself,
\* which stands for the parentNode chain that Element.closest walks).
descendants(element, anc) ==
  LET below == anc \cup {element.tagName}
      kids  == children(element)
  IN  Flatten([i \in 1..Len(kids) |->
                 <<[node |-> kids[i], anc |-> below]>> \o descendants(kids[i], below)])

\* element.querySelectorAll('t1, t2, ...') for a list of type selectors. The
\* documents come from DOMParser.parseFromString(content, 'text/xml'), and in
\* an XML document a type selector matches the tag name case-sensitively.
querySelectorAll(element, anc, tags) ==
  SelectSeq(descendants(element, anc), LAMBDA d : d.node.tagName \in tags)

\* element.querySelectorAll(':scope > t1, :scope > t2, ...')
queryScopeChildren(element, tags) ==
  SelectSeq(children(element), LAMBDA n : n.tagName \in tags)

\* Whether element.querySelector('t1, t2, ...') finds an element.
hasMatch(element, tags) == querySelectorAll(element, {}, tags) # <<>>

\* element.querySelector('t1, t2, ...') when hasMatch: the first in document order.
querySelector(element, tags) == querySelectorAll(element, {}, tags)[1].node

\* String.prototype.toLowerCase on the tag names of the model: the spellings
\* that are not already lower case, each with its lower-cased form.
TagCaseTable ==
  { <<"TABLE", "table">>, <<"TR", "tr">>, <<"TD", "td">>, <<"TH", "th">>,
    <<"UL", "ul">>, <<"OL", "ol">>, <<"LI", "li">>, <<"ITEM", "item">>,
    <<"IMAGE", "image">>, <<"IMG", "img">>, <<"FIGURE", "figure">>,
    <<"CAPTION", "caption">>, <<"SOURCE", "source">>, <<"TITLE", "title">>,
    <<"LIST", "list">>, <<"GRAPHIC", "graphic">>,
    <<"Doc", "doc">>, <<"DOC", "doc">>, <<"P", "p">>, <<"B", "b">>,
    <<"FOO", "foo">>, <<"BAR", "bar">>, <<"BAZ", "baz">> }

tagToLowerCase(tag) ==
  IF \E p \in TagCaseTable : p[1] = tag
    THEN (CHOOSE p \in TagCaseTable : p[1] = tag)[2]
    ELSE tag

(***************************************************************************)
(* The image index: this.images, a Map from key to blob URL.  A Map keeps  *)
(* its keys in the order of their first insertion, so the index is a       *)
(* sequence of <<key, url>> pairs with distinct keys.                      *)
(***************************************************************************)
\* What findImageUrl returns when nothing matches (null).
NotFound == "null"

\* Map.prototype.has
MapHas(map, key) == \E i \in 1..Len(map) : map[i][1] = key

\* Map.prototype.get, for a key the map has
MapGet(map, key) == map[CHOOSE i \in 1..Len(map) : map[i][1] = key][2]

\* MapSet as a map that keeps the first value registered under a key.
MapSetKeepsFirst(map, key, url) ==
  IF \E i \in 1..Len(map) : map[i][1] = key THEN map ELSE Append(map, <<key, url>>)

\* Map.prototype.set: a key already present keeps its position, gets the value.
MapSet(map, key, url) ==
  IF MapHas(map, key)
    THEN [i \in 1..Len(map) |-> IF map[i][1] = key THEN <<key, url>> ELSE map[i]]
    ELSE Append(map, <<key, url>>)

\* The set of Map.prototype.values()
MapValues(map) == {map[i][2] : i \in 1..Len(map)}

\* The five keys extractContents registers for the asset at `path`, in the
\* order of its five this.images.set calls.
imageKeys(path) ==
  LET fullName       == SplitPop(path, "/")
      baseName       == toLowerCase(fullName)
      nameWithoutExt == stripExtension(fullName)
  IN  <<fullName, baseName, path, nameWithoutExt, toLowerCase(nameWithoutExt)>>

RECURSIVE setAll(_, _, _)
setAll(map, keys, url) ==
  IF keys = <<>> THEN map ELSE setAll(MapSet(map, Head(keys), url), Tail(keys), url)

\* The body of the image loop of extractContents after the blob URL is made.
registerImage(map, path, url) == setAll(map, imageKeys(path), url)

\* src.replace(/^\.\//, '').replace(/^\//, '')
cleanSource(src) ==
  LET a == IF startsWith(src, <<".", "/">>) THEN SubSeq(src, 3, Len(src)) ELSE src
  IN  IF startsWith(a, <<"/">>) THEN SubSeq(a, 2, Len(a)) ELSE a

\* attempts as a candidate list that never lower-cases the file name.
attemptsCaseSensitive(src) ==
  LET cleanSrc == cleanSource(src)
      fileName == SplitPop(cleanSrc, "/")
  IN  <<src, cleanSrc, fileName, stripExtension(fileName)>>

\* The candidates findImageUrl looks up exactly, in order.
attempts(src) ==
  LET cleanSrc == cleanSource(src)
      fileName == SplitPop(cleanSrc, "/")
      baseName == toLowerCase(fileName)
  IN  <<src, cleanSrc, fileName, baseName,
        stripExtension(fileName), stripExtension(baseName)>>

\* partialMatch as a loop that keeps the last entry that matches.
partialMatchLast(map, fileName) ==
  LET hit(i) == includes(map[i][1], fileName)
                  \/ includes(fileName, SplitPop(map[i][1], "/"))
  IN  IF \E i \in 1..Len(map) : hit(i)
        THEN map[CHOOSE i \in 1..Len(map) : hit(i) /\ \A j \in (i+1)..Len(map) : ~hit(j)][2]
        ELSE NotFound

\* The partial-matching loop of findImageUrl.
partialMatch(map, fileName) ==
  LET hit(i) == includes(map[i][1], fileName)
                  \/ includes(fileName, SplitPop(map[i][1], "/"))
  IN  IF \E i \in 1..Len(map) : hit(i)
        THEN map[CHOOSE i \in 1..Len(map) : hit(i) /\ \A j \in 1..(i-1) : ~hit(j)][2]
        ELSE NotFound

findImageUrl(map, src) ==
  LET tries == attempts(src)
      found(i) == MapHas(map, tries[i])
  IN  IF \E i \in 1..Len(tries) : found(i)
        THEN MapGet(map, tries[CHOOSE i \in 1..Len(tries) :
                                  found(i) /\ \A j \in 1..(i-1) : ~found(j)])
        ELSE partialMatch(map, SplitPop(cleanSource(src), "/"))

(***************************************************************************)
(* The element renderer.  `anc` is the set of tag names of the element's   *)
(* proper ancestors and `imgs` the image index (this.images).              *)
(***************************************************************************)
\* escapeHtml: the innerHTML of a text node escapes &, < and >.
escapeChar(c) ==
  CASE c = "&" -> "&amp;"
    [] c = "<" -> "&lt;"
    [] c = ">" -> "&gt;"
    [] OTHER   -> c

escapeHtml(text) == [i \in 1..Len(text) |-> escapeChar(text[i])]

\* content.trim() is the empty string: every token is a white-space character.
isBlank(html) == \A i \in 1..Len(html) : html[i] \in WhiteSpace

\* imageSource as a search that takes the element's attributes in the order
\* the document gives them.
imageSourceDocumentOrder(element) ==
  LET srcAttrs == {"src", "href", "url", "source", "file", "path", "xlink:href"}
      a        == element.attributes
      set(i)   == a[i][1] \in srcAttrs /\ a[i][2] # <<>>
      fromAttr == IF \E i \in 1..Len(a) : set(i)
                    THEN a[CHOOSE i \in 1..Len(a) : set(i) /\ \A j \in 1..(i-1) : ~set(j)][2]
                    ELSE <<>>
      nested   == {"source", "src", "file", "path"}
      fromEl   == IF fromAttr = <<>> /\ hasMatch(element, nested)
                    THEN LET sourceEl == querySelector(element, nested)
                         IN  IF trim(textContent(sourceEl)) # <<>>
                               THEN trim(textContent(sourceEl))
                               ELSE getAttribute(sourceEl, "src")
                    ELSE fromAttr
  IN  IF fromEl = <<>> /\ Len(element.childNodes) = 1
           /\ element.childNodes[1].nodeType = "TEXT_NODE"
        THEN trim(textContent(element))
        ELSE fromEl

\* The reference renderImage hands to findImageUrl; <<>> when there is none.
imageSource(element) ==
  LET srcAttrs == <<"src", "href", "url", "source", "file", "path", "xlink:href">>
      set(i)   == getAttribute(element, srcAttrs[i]) # <<>>
      fromAttr == IF \E i \in 1..Len(srcAttrs) : set(i)
                    THEN getAttribute(element,
                           srcAttrs[CHOOSE i \in 1..Len(srcAttrs) :
                                      set(i) /\ \A j \in 1..(i-1) : ~set(j)])
                    ELSE <<>>
      nested   == {"source", "src", "file", "path"}
      fromEl   == IF fromAttr = <<>> /\ hasMatch(element, nested)
                    THEN LET sourceEl == querySelector(element, nested)
                         IN  IF trim(textContent(sourceEl)) # <<>>
                               THEN trim(textContent(sourceEl))
                               ELSE getAttribute(sourceEl, "src")
                    ELSE fromAttr
  IN  IF fromEl = <<>> /\ Len(element.childNodes) = 1
           /\ element.childNodes[1].nodeType = "TEXT_NODE"
        THEN trim(textContent(element))
        ELSE fromEl

\* The caption renderImage uses for the alt text and the caption element.
imageCaption(element) ==
  LET captions == {"caption", "figcaption", "title", "alt"}
  IN  IF hasMatch(element, captions)
        THEN textContent(querySelector(element, captions))
        ELSE IF getAttribute(element, "alt") # <<>>
               THEN getAttribute(element, "alt")
               ELSE getAttribute(element, "title")

\* The marker renderImage returns for a reference that findImageUrl misses.
imageNotFound(imageSrc) ==
  <<"<div class=\"image-error\">Image not found: ">> \o escapeHtml(imageSrc) \o <<"</div>">>

\* renderImage as a renderer with one marker for every image it cannot show.
renderImageOneMarker(element, imgs) ==
  LET imageSrc == imageSource(element)
      imageUrl == findImageUrl(imgs, imageSrc)
      caption  == imageCaption(element)
  IN  IF imageSrc = <<>> \/ imageUrl = NotFound
        THEN <<"<div class=\"image-error\">Image source not found</div>">>
        ELSE <<"\n                <div class=\"xml-image-container\">\n                    <img class=\"xml-image\" src=\"",
               imageUrl, "\" alt=\"">>
             \o escapeHtml(caption)
             \o <<"\" loading=\"lazy\">\n                    ">>
             \o (IF caption # <<>>
                   THEN <<"<div class=\"xml-image-caption\">">> \o escapeHtml(caption)
                        \o <<"</div>">>
                   ELSE <<>>)
             \o <<"\n                </div>\n            ">>

renderImage(element, imgs) ==
  LET imageSrc == imageSource(element)
      imageUrl == findImageUrl(imgs, imageSrc)
      caption  == imageCaption(element)
  IN  IF imageSrc = <<>>
        THEN <<"<div class=\"image-error\">Image source not found</div>">>
        ELSE IF imageUrl # NotFound
          THEN <<"\n                <div class=\"xml-image-container\">\n                    <img class=\"xml-image\" src=\"",
                 imageUrl, "\" alt=\"">>
               \o escapeHtml(caption)
               \o <<"\" loading=\"lazy\">\n                    ">>
               \o (IF caption # <<>>
                     THEN <<"<div class=\"xml-image-caption\">">> \o escapeHtml(caption)
                          \o <<"</div>">>
                     ELSE <<>>)
               \o <<"\n                </div>\n            ">>
          ELSE imageNotFound(imageSrc)

hasBlockElements(element) ==
  LET blockTags == {"p", "para", "paragraph", "div", "section", "table", "ul", "ol",
                    "list", "h1", "h2", "h3", "h4", "h5", "h6", "title", "heading",
                    "blockquote", "figure", "image", "img"}
      kids == children(element)
  IN  \E i \in 1..Len(kids) : tagToLowerCase(kids[i].tagName) \in blockTags

\* The tags of the switch of renderElement that only wrap renderChildren,
\* each with its opening and closing markup.
wrapTags ==
  { <<{"li", "item", "listitem"}, "<li class=\"xml-list-item\">", "</li>">>,
    <<{"title", "heading", "h1"}, "<h1 class=\"xml-title\">", "</h1>">>,
    <<{"h2", "subtitle"}, "<h2 class=\"xml-h2\">", "</h2>">>,
    <<{"h3"}, "<h3 class=\"xml-h3\">", "</h3>">>,
    <<{"p", "para", "paragraph", "text"}, "<p class=\"xml-paragraph\">", "</p>">>,
    <<{"b", "bold", "strong"}, "<strong class=\"xml-bold\">", "</strong>">>,
    <<{"i", "italic", "em", "emphasis"}, "<em class=\"xml-italic\">", "</em>">>,
    <<{"u", "underline"}, "<u class=\"xml-underline\">", "</u>">>,
    <<{"blockquote", "quote"}, "<blockquote class=\"xml-blockquote\">", "</blockquote>">>,
    <<{"section", "div", "block", "chapter"}, "<div class=\"xml-section\">", "</div>">>,
    <<{"header"}, "<div class=\"xml-header\">", "</div>">>,
    <<{"footer"}, "<div class=\"xml-footer\">", "</div>">>,
    <<{"caption", "figcaption"}, "<div class=\"xml-image-caption\">", "</div>">>,
    <<{"span", "inline"}, "<span class=\"xml-element\">", "</span>">> }

\* The lower-cased tag names the switch of renderElement has a case for.
dispatchTags ==
  UNION {w[1] : w \in wrapTags}
    \cup {"img", "image", "figure", "graphic", "picture", "table", "ul", "ol", "list",
          "code", "pre", "programlisting", "a", "link", "xref", "br", "break",
          "linebreak", "hr", "separator", "pagebreak", "page-break"}

RECURSIVE renderElement(_, _, _)
RECURSIVE renderChildren(_, _, _)
RECURSIVE renderNodes(_, _, _)

\* The rows loop of renderTable (rows.forEach), from row `index` (0-based) on.
RECURSIVE renderRows(_, _, _)
renderRows(rows, index, imgs) ==
  IF index >= Len(rows)
    THEN <<>>
    ELSE LET row      == rows[index + 1]
             cells    == querySelectorAll(row.node, row.anc, {"td", "th", "cell", "entry"})
             isHeader == "thead" \in row.anc \/ "header" \in row.anc
                           \/ (index = 0 /\ hasMatch(row.node, {"th"}))
             tag(c)   == IF isHeader \/ tagToLowerCase(c.node.tagName) = "th"
                           THEN "th" ELSE "td"
             cell(c)  == <<IF tag(c) = "th" THEN "<th>" ELSE "<td>">>
                           \o renderChildren(c.node, c.anc, imgs)
                           \o <<IF tag(c) = "th" THEN "</th>" ELSE "</td>">>
         IN  <<"<tr>">> \o Flatten([i \in 1..Len(cells) |-> cell(cells[i])]) \o <<"</tr>">>
               \o renderRows(rows, index + 1, imgs)

renderTable(element, anc, imgs) ==
  LET rows    == querySelectorAll(element, anc, {"tr", "row"})
      entries == querySelectorAll(element, anc, {"entry", "cell", "td", "th"})
  IN  <<"<table class=\"xml-table\">">>
        \o (IF rows = <<>>
              THEN IF entries # <<>>
                     THEN <<"<tbody><tr>">>
                            \o Flatten([i \in 1..Len(entries) |->
                                 <<"<td>">> \o renderChildren(entries[i].node, entries[i].anc, imgs)
                                   \o <<"</td>">>])
                            \o <<"</tr></tbody>">>
                     ELSE <<>>
              ELSE renderRows(rows, 0, imgs))
        \o <<"</table>">>

\* renderList as a renderer that puts every child into the list.
renderListAllChildren(element, anc, imgs, listType) ==
  <<IF listType = "ol" THEN "<ol class=\"xml-list\">" ELSE "<ul class=\"xml-list\">">>
    \o renderChildren(element, anc, imgs)
    \o <<IF listType = "ol" THEN "</ol>" ELSE "</ul>">>

renderList(element, anc, imgs, listType) ==
  LET items == queryScopeChildren(element, {"li", "item", "listitem"})
      below == anc \cup {element.tagName}
  IN  <<IF listType = "ol" THEN "<ol class=\"xml-list\">" ELSE "<ul class=\"xml-list\">">>
        \o (IF items # <<>>
              THEN Flatten([i \in 1..Len(items) |->
                     <<"<li class=\"xml-list-item\">">>
                       \o renderChildren(items[i], below, imgs) \o <<"</li>">>])
              ELSE renderChildren(element, anc, imgs))
        \o <<IF listType = "ol" THEN "</ol>" ELSE "</ul>">>

\* renderUnknown as a default case that asks hasBlockElements alone.
renderUnknownBlockOnly(element, anc, imgs, tagName) ==
  IF hasBlockElements(element)
    THEN <<"<div class=\"xml-element-block\" data-tag=\"", tagName, "\">">>
           \o renderChildren(element, anc, imgs) \o <<"</div>">>
    ELSE LET content == renderChildren(element, anc, imgs)
         IN  IF ~isBlank(content)
               THEN <<"<span class=\"xml-element\" data-tag=\"", tagName, "\">">>
                      \o content \o <<"</span>">>
               ELSE <<>>

\* The default case of the switch of renderElement.
renderUnknown(element, anc, imgs, tagName) ==
  IF hasBlockElements(element) \/ Len(children(element)) > 0
    THEN <<"<div class=\"xml-element-block\" data-tag=\"", tagName, "\">">>
           \o renderChildren(element, anc, imgs) \o <<"</div>">>
    ELSE LET content == renderChildren(element, anc, imgs)
         IN  IF ~isBlank(content)
               THEN <<"<span class=\"xml-element\" data-tag=\"", tagName, "\">">>
                      \o content \o <<"</span>">>
               ELSE <<>>

renderElement(element, anc, imgs) ==
  LET tagName == tagToLowerCase(element.tagName)
  IN  CASE tagName \in {"img", "image", "figure", "graphic", "picture"} ->
             renderImage(element, imgs)
        [] tagName = "table" -> renderTable(element, anc, imgs)
        [] tagName \in {"ul", "ol", "list"} ->
             renderList(element, anc, imgs, IF tagName = "ol" THEN "ol" ELSE "ul")
        [] \E w \in wrapTags : tagName \in w[1] ->
             LET w == CHOOSE w \in wrapTags : tagName \in w[1]
             IN  <<w[2]>> \o renderChildren(element, anc, imgs) \o <<w[3]>>
        [] tagName \in {"code", "pre", "programlisting"} ->
             <<"<code class=\"xml-code\">">> \o escapeHtml(textContent(element))
               \o <<"</code>">>
        [] tagName \in {"a", "link", "xref"} ->
             LET href == IF getAttribute(element, "href") # <<>>
                           THEN getAttribute(element, "href")
                           ELSE IF getAttribute(element, "url") # <<>>
                                  THEN getAttribute(element, "url")
                                  ELSE <<"#">>
             IN  <<"<a class=\"xml-link\" href=\"">> \o escapeHtml(href)
                   \o <<"\" target=\"_blank\">">>
                   \o renderChildren(element, anc, imgs) \o <<"</a>">>
        [] tagName \in {"br", "break", "linebreak"} -> <<"<br>">>
        [] tagName \in {"hr", "separator", "pagebreak", "page-break"} ->
             <<"<div class=\"xml-page-break\"></div>">>
        [] OTHER -> renderUnknown(element, anc, imgs, tagName)

\* What one child node adds to the output of renderChildren.
renderNode(node, below, imgs) ==
  IF node.nodeType = "TEXT_NODE"
    THEN IF trim(node.data) # <<>> THEN escapeHtml(node.data) ELSE <<>>
    ELSE renderElement(node, below, imgs)

\* The loop of renderChildren over a list of child nodes.
renderNodes(nodes, below, imgs) ==
  IF nodes = <<>>
    THEN <<>>
    ELSE renderNode(Head(nodes), below, imgs) \o renderNodes(Tail(nodes), below, imgs)

renderChildren(element, anc, imgs) ==
  renderNodes(element.childNodes, anc \cup {element.tagName}, imgs)

(***************************************************************************)
(* formatXML, the raw view's formatter.                                    *)
(***************************************************************************)
\* The first position after i that holds no white space, 0 when there is none.
nextNonSpace(s, i) ==
  IF \E j \in (i+1)..Len(s) : s[j] \notin WhiteSpace
    THEN CHOOSE j \in (i+1)..Len(s) :
           s[j] \notin WhiteSpace /\ \A k \in (i+1)..(j-1) : s[k] \in WhiteSpace
    ELSE 0

\* The last position before i that holds no white space, 0 when there is none.
prevNonSpace(s, i) ==
  IF \E j \in 1..(i-1) : s[i - j] \notin WhiteSpace
    THEN i - (CHOOSE j \in 1..(i-1) :
                s[i - j] \notin WhiteSpace /\ \A k \in 1..(j-1) : s[i - k] \in WhiteSpace)
    ELSE 0

\* xml.replace(/>\s*</g, '>\n<'): the white space between a '>' and the next
\* '<' is replaced by one line break.
breakBetweenTags(xml) ==
  LET opensGap(i) == /\ xml[i] = ">"
                     /\ nextNonSpace(xml, i) > 0
                     /\ xml[nextNonSpace(xml, i)] = "<"
      inGap(i)    == /\ xml[i] \in WhiteSpace
                     /\ prevNonSpace(xml, i) > 0
                     /\ opensGap(prevNonSpace(xml, i))
  IN  Flatten([i \in 1..Len(xml) |->
                 IF inGap(i) THEN <<>>
                 ELSE IF opensGap(i) THEN <<">", "\n">> ELSE <<xml[i]>>])

RECURSIVE split(_, _)
\* String.prototype.split on a one-character separator
split(s, sep) ==
  IF \E i \in 1..Len(s) : s[i] = sep
    THEN LET i == CHOOSE i \in 1..Len(s) : s[i] = sep /\ \A j \in 1..(i-1) : s[j] # sep
         IN  <<SubSeq(s, 1, i - 1)>> \o split(SubSeq(s, i + 1, Len(s)), sep)
    ELSE <<s>>

\* '  '.repeat(indent)
RECURSIVE repeatIndent(_)
repeatIndent(indent) == IF indent <= 0 THEN <<>> ELSE <<" ", " ">> \o repeatIndent(indent - 1)

\* The loop of formatXML over the lines, with the indent reached so far.
RECURSIVE formatLines(_, _)
formatLines(lines, indent) ==
  IF lines = <<>>
    THEN <<>>
    ELSE LET line   == trim(Head(lines))
             closes == startsWith(line, <<"<", "/">>)
             at     == IF closes THEN (IF indent - 1 > 0 THEN indent - 1 ELSE 0) ELSE indent
             opens  == startsWith(line, <<"<">>) /\ ~closes
                         /\ ~startsWith(line, <<"<", "?">>) /\ ~startsWith(line, <<"<", "!">>)
                         /\ ~endsWith(line, <<"/", ">">>) /\ ~includes(line, <<"<", "/">>)
         IN  IF line = <<>>
               THEN formatLines(Tail(lines), indent)
               ELSE repeatIndent(at) \o line \o <<"\n">>
                      \o formatLines(Tail(lines), IF opens THEN at + 1 ELSE at)

formatXML(xml) == trim(formatLines(split(breakBetweenTags(xml), "\n"), 0))

(***************************************************************************)
(* The ordering of the documents: Array.prototype.sort (stable) with       *)
(* a.name.localeCompare(b.name, undefined, { numeric: true }).             *)
(***************************************************************************)
\* The collation order of the characters of the model's file names:
\* punctuation before digits before letters.
CollationOrder == <<"_", "-", ".">> \o Digits \o LowerLetters

isDigit(c) == IndexIn(c, Digits) > 0

\* The number of leading digits of s.
digitRun(s) ==
  IF \A i \in 1..Len(s) : isDigit(s[i])
    THEN Len(s)
    ELSE (CHOOSE i \in 1..Len(s) : ~isDigit(s[i]) /\ \A j \in 1..(i-1) : isDigit(s[j])) - 1

RECURSIVE numericValue(_)
\* The value of a run of digits.
numericValue(run) ==
  IF run = <<>>
    THEN 0
    ELSE 10 * numericValue(SubSeq(run, 1, Len(run) - 1)) + (IndexIn(run[Len(run)], Digits) - 1)

RECURSIVE codeUnitCompare(_, _)
\* localeCompare as a comparison that takes digits one by one.
codeUnitCompare(a, b) ==
  IF a = <<>> \/ b = <<>>
    THEN IF a = b THEN 0 ELSE IF a = <<>> THEN -1 ELSE 1
    ELSE LET ra == IndexIn(a[1], CollationOrder)
             rb == IndexIn(b[1], CollationOrder)
         IN  IF ra # rb
               THEN IF ra < rb THEN -1 ELSE 1
               ELSE codeUnitCompare(Tail(a), Tail(b))

RECURSIVE localeCompare(_, _)
\* a.localeCompare(b, undefined, { numeric: true }): -1, 0 or 1. Runs of
\* digits compare by their value, other characters by collation order.
localeCompare(a, b) ==
  IF a = <<>> \/ b = <<>>
    THEN IF a = b THEN 0 ELSE IF a = <<>> THEN -1 ELSE 1
    ELSE IF isDigit(a[1]) /\ isDigit(b[1])
      THEN LET va == numericValue(SubSeq(a, 1, digitRun(a)))
               vb == numericValue(SubSeq(b, 1, digitRun(b)))
           IN  IF va # vb
                 THEN IF va < vb THEN -1 ELSE 1
                 ELSE localeCompare(SubSeq(a, digitRun(a) + 1, Len(a)),
                                    SubSeq(b, digitRun(b) + 1, Len(b)))
      ELSE LET ra == IndexIn(a[1], CollationOrder)
               rb == IndexIn(b[1], CollationOrder)
           IN  IF ra # rb
                 THEN IF ra < rb THEN -1 ELSE 1
                 ELSE localeCompare(Tail(a), Tail(b))

\* The comparator of the sort in extractContents.
compareXmlFiles(a, b) == localeCompare(a.name, b.name)

\* x put into a sorted list behind every element that does not compare greater.
insertSorted(sorted, x) ==
  LET keep == Cardinality({i \in 1..Len(sorted) :
                \A j \in 1..i : compareXmlFiles(sorted[j], x) <= 0})
  IN  SubSeq(sorted, 1, keep) \o <<x>> \o SubSeq(sorted, keep + 1, Len(sorted))

RECURSIVE sortXmlFiles(_)
\* xmlFiles.sort(...): a stable sort.
sortXmlFiles(list) ==
  IF list = <<>>
    THEN <<>>
    ELSE insertSorted(sortXmlFiles(SubSeq(list, 1, Len(list) - 1)), list[Len(list)])

(***************************************************************************)
(* The documents of the model: XML text with the tree the parser makes of  *)
(* it.                                                                     *)
(***************************************************************************)
DocBroken ==
  [content |-> <<"<","a",">","<","b",">","<","/","a",">">>,
   parsed |->
    ElementNode("parsererror", <<>>, <<
      TextNode(<<"e","r","r","o","r">>)
    >>)]

DocListing ==
  [content |-> <<"<","d","o","c",">","<","t","i","t","l","e",">","T","<","/","t","i","t","l","e",">","<","u","l",">","<","l","i",">","A","<","/","l","i",">","<","l","i",">","B","<","/","l","i",">","<","/","u","l",">","<","/","d","o","c",">">>,
   parsed |->
    ElementNode("doc", <<>>, <<
      ElementNode("title", <<>>, <<
        TextNode(<<"T">>)
      >>),
      ElementNode("ul", <<>>, <<
        ElementNode("li", <<>>, <<
          TextNode(<<"A">>)
        >>),
        ElementNode("li", <<>>, <<
          TextNode(<<"B">>)
        >>)
      >>)
    >>)]

DocImages ==
  [content |-> <<"<","d","o","c",">","<","i","m","a","g","e"," ","s","r","c","=","\"","m","/","p","h",".","P","N","G","\"","/",">","<","f","o","o",">","h","i","<","/","f","o","o",">","\n","<","i","m","a","g","e"," ","s","r","c","=","\"","q",".","p","n","g","\"","/",">","<","/","d","o","c",">">>,
   parsed |->
    ElementNode("doc", <<>>, <<
      ElementNode("image", << <<"src", <<"m","/","p","h",".","P","N","G">>>> >>, <<>>),
      ElementNode("foo", <<>>, <<
        TextNode(<<"h","i">>)
      >>),
      TextNode(<<"\n">>),
      ElementNode("image", << <<"src", <<"q",".","p","n","g">>>> >>, <<>>)
    >>)]

DocTable ==
  [content |-> <<"<","t","a","b","l","e",">","<","t","r",">","<","t","h",">","h","<","/","t","h",">","<","/","t","r",">","<","t","r",">","<","t","d",">","x","<","/","t","d",">","<","/","t","r",">","<","/","t","a","b","l","e",">">>,
   parsed |->
    ElementNode("table", <<>>, <<
      ElementNode("tr", <<>>, <<
        ElementNode("th", <<>>, <<
          TextNode(<<"h">>)
        >>)
      >>),
      ElementNode("tr", <<>>, <<
        ElementNode("td", <<>>, <<
          TextNode(<<"x">>)
        >>)
      >>)
    >>)]

DocLists ==
  [content |-> <<"<","d","o","c",">","<","o","l",">","t","<","i","t","e","m",">","A","<","/","i","t","e","m",">","<","b",">","c","<","/","b",">","<","/","o","l",">","<","l","i","s","t",">","<","p",">","x","<","/","p",">","<","/","l","i","s","t",">","<","U","L",">","<","L","I",">","z","<","/","L","I",">","<","/","U","L",">","<","/","d","o","c",">">>,
   parsed |->
    ElementNode("doc", <<>>, <<
      ElementNode("ol", <<>>, <<
        TextNode(<<"t">>),
        ElementNode("item", <<>>, <<
          TextNode(<<"A">>)
        >>),
        ElementNode("b", <<>>, <<
          TextNode(<<"c">>)
        >>)
      >>),
      ElementNode("list", <<>>, <<
        ElementNode("p", <<>>, <<
          TextNode(<<"x">>)
        >>)
      >>),
      ElementNode("UL", <<>>, <<
        ElementNode("LI", <<>>, <<
          TextNode(<<"z">>)
        >>)
      >>)
    >>)]

DocUnknown ==
  [content |-> <<"<","D","o","c",">","<","f","o","o",">","<","b",">","x","<","/","b",">","<","/","f","o","o",">","<","b","a","r",">"," ","<","/","b","a","r",">","<","b","a","z",">","a","&","l","t",";","b","<","/","b","a","z",">","<","/","D","o","c",">">>,
   parsed |->
    ElementNode("Doc", <<>>, <<
      ElementNode("foo", <<>>, <<
        ElementNode("b", <<>>, <<
          TextNode(<<"x">>)
        >>)
      >>),
      ElementNode("bar", <<>>, <<
        TextNode(<<" ">>)
      >>),
      ElementNode("baz", <<>>, <<
        TextNode(<<"a","<","b">>)
      >>)
    >>)]

DocFigure ==
  [content |-> <<"<","d","o","c",">","<","f","i","g","u","r","e",">","<","c","a","p","t","i","o","n",">","c","<","/","c","a","p","t","i","o","n",">","<","s","o","u","r","c","e",">","x",".","p","n","g","<","/","s","o","u","r","c","e",">","<","/","f","i","g","u","r","e",">","<","i","m","g",">","q",".","p","n","g","<","/","i","m","g",">","<","g","r","a","p","h","i","c","/",">","<","/","d","o","c",">">>,
   parsed |->
    ElementNode("doc", <<>>, <<
      ElementNode("figure", <<>>, <<
        ElementNode("caption", <<>>, <<
          TextNode(<<"c">>)
        >>),
        ElementNode("source", <<>>, <<
          TextNode(<<"x",".","p","n","g">>)
        >>)
      >>),
      ElementNode("img", <<>>, <<
        TextNode(<<"q",".","p","n","g">>)
      >>),
      ElementNode("graphic", <<>>, <<>>)
    >>)]

DocSources ==
  [content |-> <<"<","d","o","c"," ","x","m","l","n","s",":","x","l","i","n","k","=","\"","u","\"",">","<","i","m","g"," ","s","r","c","=","\"","x",".","p","n","g","\""," ","a","l","t","=","\"","A","\"",">","<","c","a","p","t","i","o","n","/",">","<","/","i","m","g",">","<","i","m","a","g","e"," ","h","r","e","f","=","\"","x",".","p","n","g","\""," ","s","r","c","=","\"","\""," ","t","i","t","l","e","=","\"","T","\""," ","a","l","t","=","\"","B","\"","/",">","<","p","i","c","t","u","r","e"," ","x","l","i","n","k",":","h","r","e","f","=","\"","x",".","p","n","g","\""," ","t","i","t","l","e","=","\"","T","\"","/",">","<","f","i","g","u","r","e",">","<","f","i","l","e"," ","s","r","c","=","\"","x",".","p","n","g","\"","/",">","<","t","i","t","l","e",">","c","<","/","t","i","t","l","e",">","<","a","l","t",">","d","<","/","a","l","t",">","<","/","f","i","g","u","r","e",">","<","g","r","a","p","h","i","c",">","<","p","a","t","h",">"," ","x",".","p","n","g"," ","<","/","p","a","t","h",">","<","/","g","r","a","p","h","i","c",">","<","i","m","g"," ","u","r","l","=","\"","q","\""," ","h","r","e","f","=","\"","r","\"","/",">","<","i","m","g",">"," ","q"," ","<","/","i","m","g",">","<","i","m","g",">","<","s","r","c","/",">","<","/","i","m","g",">","<","/","d","o","c",">">>,
   parsed |->
    ElementNode("doc", << <<"xmlns:xlink", <<"u">>>> >>, <<
      ElementNode("img", << <<"src", <<"x",".","p","n","g">>>>, <<"alt", <<"A">>>> >>, <<
        ElementNode("caption", <<>>, <<>>)
      >>),
      ElementNode("image", << <<"href", <<"x",".","p","n","g">>>>, <<"src", <<>>>>, <<"title", <<"T">>>>, <<"alt", <<"B">>>> >>, <<>>),
      ElementNode("picture", << <<"xlink:href", <<"x",".","p","n","g">>>>, <<"title", <<"T">>>> >>, <<>>),
      ElementNode("figure", <<>>, <<
        ElementNode("file", << <<"src", <<"x",".","p","n","g">>>> >>, <<>>),
        ElementNode("title", <<>>, <<
          TextNode(<<"c">>)
        >>),
        ElementNode("alt", <<>>, <<
          TextNode(<<"d">>)
        >>)
      >>),
      ElementNode("graphic", <<>>, <<
        ElementNode("path", <<>>, <<
          TextNode(<<" ","x",".","p","n","g"," ">>)
        >>)
      >>),
      ElementNode("img", << <<"url", <<"q">>>>, <<"href", <<"r">>>> >>, <<>>),
      ElementNode("img", <<>>, <<
        TextNode(<<" ","q"," ">>)
      >>),
      ElementNode("img", <<>>, <<
        ElementNode("src", <<>>, <<>>)
      >>)
    >>)]

DocPool ==
  {DocBroken, DocListing, DocImages, DocTable, DocLists, DocUnknown, DocFigure,
   DocSources}

\* new DOMParser().parseFromString(content, 'text/xml')
parseFromString(content) == (CHOOSE d \in DocPool : d.content = content).parsed

(***************************************************************************)
(* The files a user can hand to processFile.  An archive is zip.files: its *)
(* entries in the order Object.entries yields them, each with its path,    *)
(* its dir flag and, for a document, the text entry.async('text') yields.  *)
(***************************************************************************)
Entry(path, content) == [path |-> path, dir |-> FALSE, content |-> content]

DirEntry(path) == [path |-> path, dir |-> TRUE, content |-> <<>>]

EntryBXml    == Entry(<<"b",".","x","m","l">>, DocImages.content)
EntryAXml    == Entry(<<"a",".","x","m","l">>, DocListing.content)
EntryF10Xml  == Entry(<<"f","1","0",".","x","m","l">>, DocLists.content)
EntryF2Xml   == Entry(<<"f","2",".","x","m","l">>, DocTable.content)
EntryDAXml   == Entry(<<"d","/","a",".","x","m","l">>, DocUnknown.content)
EntryCXml    == Entry(<<"c",".","x","m","l">>, DocFigure.content)
EntryEXml    == Entry(<<"e",".","x","m","l">>, DocBroken.content)
EntryGXml    == Entry(<<"g",".","x","m","l">>, DocSources.content)
EntryPhoto   == Entry(<<"m","/","p","h",".","p","n","g">>, <<>>)
EntryPhotoGif == Entry(<<"n","/","p","h",".","p","n","g",".","g","i","f">>, <<>>)
EntryX       == Entry(<<"x",".","p","n","g">>, <<>>)
EntryAX      == Entry(<<"a","/","X",".","P","N","G">>, <<>>)
EntryReadme  == Entry(<<"r",".","t","x","t">>, <<>>)
EntryDirM    == DirEntry(<<"m","/">>)

ZipName == <<"z",".","z","i","p">>

\* A file: its name, whether JSZip.loadAsync can open it, and its entries.
ZipFile(entries) == [name |-> ZipName, opens |-> TRUE, files |-> entries]

FilePool ==
  { ZipFile(<<EntryBXml, EntryAXml, EntryPhoto>>),
    ZipFile(<<EntryF10Xml, EntryF2Xml, EntryX, EntryAX>>),
    ZipFile(<<EntryDirM, EntryPhoto, EntryPhotoGif, EntryAXml, EntryReadme, EntryDAXml>>),
    ZipFile(<<EntryAX, EntryX, EntryGXml, EntryCXml, EntryEXml>>),
    ZipFile(<<EntryPhoto, EntryReadme>>),
    [name |-> <<"z",".","t","x","t">>, opens |-> TRUE, files |-> <<EntryAXml>>],
    [name |-> ZipName, opens |-> FALSE, files |-> <<>>] }

\* The blob URLs URL.createObjectURL returns, in the order it returns them.
BlobUrls == <<"blob:1", "blob:2", "blob:3", "blob:4", "blob:5", "blob:6", "blob:7", "blob:8">>

\* ['jpg', 'jpeg', 'png', 'gif', 'bmp', 'svg', 'webp', 'tiff', 'tif']
ImageExtensions ==
  { <<"j","p","g">>, <<"j","p","e","g">>, <<"p","n","g">>, <<"g","i","f">>,
    <<"b","m","p">>, <<"s","v","g">>, <<"w","e","b","p">>, <<"t","i","f","f">>,
    <<"t","i","f">> }

\* The extension extractContents computes for an entry's path.
extensionOf(path) == SplitPop(toLowerCase(SplitPop(path, "/")), ".")

isXmlEntry(e) == ~e.dir /\ extensionOf(e.path) = <<"x","m","l">>

isImageEntry(e) == ~e.dir /\ extensionOf(e.path) \in ImageExtensions

\* The local list xmlFiles of extractContents after its scan of zip.files.
scanXmlFiles(files) ==
  LET found == SelectSeq(files, isXmlEntry)
  IN  [i \in 1..Len(found) |->
         [path |-> found[i].path, entry |-> found[i], name |-> SplitPop(found[i].path, "/")]]

\* The local list imageFiles of extractContents after its scan of zip.files.
scanImageFiles(files) == SelectSeq(files, isImageEntry)

\* String(index), what option.value = index stores
RECURSIVE numberToString(_)
numberToString(n) ==
  IF n < 10 THEN <<Digits[n + 1]>> ELSE numberToString(n \div 10) \o <<Digits[(n % 10) + 1]>>

\* parseInt on a string of digits
parseInt(s) == numericValue(s)

(***************************************************************************)
(* The state.                                                              *)
(***************************************************************************)
VARIABLES
  xmlFiles,         \* this.xmlFiles: sequence of [name, path, content, parsed, hasError]
  currentXmlIndex,  \* this.currentXmlIndex (0-based)
  images,           \* this.images
  currentView,      \* this.currentView
  screen,           \* which section showLoading/showPreview/showError/reset displays
  selectorOptions,  \* the options of xmlSelector: sequence of [value, textContent]
  selectorVisible,  \* xmlSelectorContainer is displayed
  renderedView,     \* renderedView.innerHTML
  rawView,          \* rawView.textContent
  pc,               \* where processFile is: "idle", "loadAsync", "text" or "blob"
  zip,              \* the file processFile is working on
  xmlQueue,         \* extractContents: the sorted documents still to be read
  imageQueue,       \* extractContents: the images still to be read
  blobStore,        \* the browser's blob URLs: created and not revoked
  urlCount,         \* how many blob URLs URL.createObjectURL has made
  assets,           \* the assets registered since the last reset: <<path, url>>
  loads,            \* how many times processFile has run since the last reset
  load,             \* the file of the processFile that ran last and the state it found
  lastOp            \* the handler that ran last, with how a load ended

vars ==
  <<xmlFiles, currentXmlIndex, images, currentView, screen, selectorOptions, selectorVisible, renderedView, rawView, pc, zip, xmlQueue,
    imageQueue, blobStore, urlCount, assets, loads, load, lastOp>>

NoFile == [name |-> <<>>, opens |-> FALSE, files |-> <<>>]

\* No processFile ran last.
NoLoad == [file |-> NoFile, xmlFiles |-> <<>>, images |-> <<>>, currentXmlIndex |-> 0]

Init ==
  /\ xmlFiles = <<>>
  /\ currentXmlIndex = 0
  /\ images = <<>>
  /\ currentView = "rendered"
  /\ screen = "upload"
  /\ selectorOptions = <<>>
  /\ selectorVisible = FALSE
  /\ renderedView = <<>>
  /\ rawView = <<>>
  /\ pc = "idle"
  /\ zip = NoFile
  /\ xmlQueue = <<>>
  /\ imageQueue = <<>>
  /\ blobStore = {}
  /\ urlCount = 0
  /\ assets = <<>>
  /\ loads = 0
  /\ load = NoLoad
  /\ lastOp = "init"

\* The options updateXmlSelector builds for a document list.
xmlSelectorOptions(files) ==
  [i \in 1..Len(files) |->
     [value |-> numberToString(i - 1),
      textContent |-> files[i].name \o
        (IF files[i].hasError
           THEN <<" ","(","p","a","r","s","e"," ","e","r","r","o","r",")">>
           ELSE <<>>)]]

\* renderedView.innerHTML after renderCurrentXML
renderedAfter(files, index, imgs, shown) ==
  IF index + 1 \in 1..Len(files)
    THEN <<"<div class=\"xml-document\">">>
           \o renderElement(files[index + 1].parsed, {}, imgs) \o <<"</div>">>
    ELSE shown

\* rawView.textContent after renderCurrentXML
rawAfter(files, index, shown) ==
  IF index + 1 \in 1..Len(files) THEN formatXML(files[index + 1].content) ELSE shown

\* showError(message), which ends a processFile that failed
ShowError(message) ==
  /\ screen' = "error"
  /\ pc' = "idle"
  /\ zip' = NoFile
  /\ xmlQueue' = <<>>
  /\ imageQueue' = <<>>
  /\ lastOp' = "loadError"

\* FinishLoad as an end of extractContents that keeps the selection index.
FinishLoadKeepsSelection(files, imgs) ==
  /\ selectorOptions' = xmlSelectorOptions(files)
  /\ selectorVisible' = (Len(files) > 1)
  /\ currentXmlIndex' = currentXmlIndex
  /\ renderedView' = renderedAfter(files, currentXmlIndex, imgs, renderedView)
  /\ rawView' = rawAfter(files, currentXmlIndex, rawView)
  /\ screen' = "preview"
  /\ pc' = "idle"
  /\ zip' = NoFile
  /\ xmlQueue' = <<>>
  /\ imageQueue' = <<>>
  /\ lastOp' = "loadOk"

\* The end of extractContents and of processFile: updateXmlSelector,
\* currentXmlIndex = 0, renderCurrentXML, showPreview.
FinishLoad(files, imgs) ==
  /\ selectorOptions' = xmlSelectorOptions(files)
  /\ selectorVisible' = (Len(files) > 1)
  /\ currentXmlIndex' = 0
  /\ renderedView' = renderedAfter(files, 0, imgs, renderedView)
  /\ rawView' = rawAfter(files, 0, rawView)
  /\ screen' = "preview"
  /\ pc' = "idle"
  /\ zip' = NoFile
  /\ xmlQueue' = <<>>
  /\ imageQueue' = <<>>
  /\ lastOp' = "loadOk"

\* What extractContents leaves alone while it waits for its next entry.
StillLoading ==
  UNCHANGED <<selectorOptions, selectorVisible, currentXmlIndex, renderedView, rawView,
              screen, zip, lastOp>>

\* processFile up to its first await.
ProcessFile(file) ==
  /\ pc = "idle"
  /\ loads < MaxLoads
  /\ urlCount + Len(scanImageFiles(file.files)) <= MaxBlobUrls
  /\ loads' = loads + 1
  /\ load' = [file |-> file, xmlFiles |-> xmlFiles, images |-> images,
              currentXmlIndex |-> currentXmlIndex]
  /\ IF ~endsWith(file.name, <<".","z","i","p">>)
       THEN ShowError("Please upload a ZIP file")
       ELSE /\ screen' = "loading"
            /\ pc' = "loadAsync"
            /\ zip' = file
            /\ lastOp' = "loadStarted"
            /\ UNCHANGED <<xmlQueue, imageQueue>>
  /\ UNCHANGED <<xmlFiles, currentXmlIndex, images, currentView, selectorOptions,
                 selectorVisible, renderedView, rawView, blobStore, urlCount, assets>>

\* JSZip.loadAsync rejects: the catch of processFile.
LoadAsyncRejected ==
  /\ pc = "loadAsync"
  /\ ~zip.opens
  /\ ShowError("Failed to process ZIP file: ")
  /\ UNCHANGED <<xmlFiles, currentXmlIndex, images, currentView, selectorOptions,
                 selectorVisible, renderedView, rawView, blobStore, urlCount, assets,
                 loads, load>>

\* JSZip.loadAsync resolves: extractContents up to its first await.
LoadAsyncResolved ==
  /\ pc = "loadAsync"
  /\ zip.opens
  /\ IF scanXmlFiles(zip.files) = <<>>
       THEN /\ ShowError("Failed to process ZIP file: No XML file found in the ZIP")
            /\ UNCHANGED xmlFiles
       ELSE /\ xmlFiles' = <<>>
            /\ xmlQueue' = sortXmlFiles(scanXmlFiles(zip.files))
            /\ imageQueue' = scanImageFiles(zip.files)
            /\ pc' = "text"
            /\ UNCHANGED <<screen, zip, lastOp>>
  /\ UNCHANGED <<currentXmlIndex, images, currentView, selectorOptions, selectorVisible,
                 renderedView, rawView, blobStore, urlCount, assets, loads, load>>

\* The document pushed onto this.xmlFiles for a local xmlFile and its text.
parsedDocument(xmlFile, content) ==
  LET parsed == parseFromString(content)
  IN  [name |-> xmlFile.name, path |-> xmlFile.path, content |-> content,
       parsed |-> parsed,
       hasError |-> parsed.tagName = "parsererror" \/ hasMatch(parsed, {"parsererror"})]

\* xmlFile.entry.async('text') resolves: the document is parsed and stored,
\* and extractContents runs on to its next await or to its end.
TextResolved ==
  /\ pc = "text"
  /\ LET files == Append(xmlFiles, parsedDocument(Head(xmlQueue), Head(xmlQueue).entry.content))
     IN  /\ xmlFiles' = files
         /\ IF Len(xmlQueue) > 1
              THEN /\ xmlQueue' = Tail(xmlQueue)
                   /\ UNCHANGED <<pc, imageQueue>>
                   /\ StillLoading
              ELSE IF imageQueue # <<>>
                THEN /\ xmlQueue' = <<>>
                     /\ pc' = "blob"
                     /\ UNCHANGED imageQueue
                     /\ StillLoading
                ELSE FinishLoad(files, images)
  /\ UNCHANGED <<images, currentView, blobStore, urlCount, assets, loads, load>>

\* entry.async('blob') resolves: a blob URL is made and registered, and
\* extractContents runs on to its next await or to its end.
BlobResolved ==
  /\ pc = "blob"
  /\ LET url  == BlobUrls[urlCount + 1]
         imgs == registerImage(images, Head(imageQueue).path, url)
     IN  /\ urlCount' = urlCount + 1
         /\ blobStore' = blobStore \cup {url}
         /\ images' = imgs
         /\ assets' = Append(assets, <<Head(imageQueue).path, url>>)
         /\ IF Len(imageQueue) > 1
              THEN /\ imageQueue' = Tail(imageQueue)
                   /\ UNCHANGED <<pc, xmlQueue>>
                   /\ StillLoading
              ELSE FinishLoad(xmlFiles, imgs)
  /\ UNCHANGED <<xmlFiles, currentView, loads, load>>

\* entry.async(...) rejects for the entry being read (an entry that cannot
\* be decompressed): the catch of processFile.
EntryRejected ==
  /\ pc \in {"text", "blob"}
  /\ ShowError("Failed to process ZIP file: ")
  /\ UNCHANGED <<xmlFiles, currentXmlIndex, images, currentView, selectorOptions,
                 selectorVisible, renderedView, rawView, blobStore, urlCount, assets,
                 loads, load>>

\* The change listener of xmlSelector, for the option the user picks; the
\* user has no selector to pick from while updateXmlSelector or reset keeps
\* xmlSelectorContainer hidden.
SelectorChange(option) ==
  /\ pc = "idle"
  /\ selectorVisible
  /\ option \in 1..Len(selectorOptions)
  /\ LET index == parseInt(selectorOptions[option].value)
     IN  /\ currentXmlIndex' = index
         /\ renderedView' = renderedAfter(xmlFiles, index, images, renderedView)
         /\ rawView' = rawAfter(xmlFiles, index, rawView)
  /\ lastOp' = "selectorChange"
  /\ load' = NoLoad
  /\ UNCHANGED <<xmlFiles, images, currentView, screen, selectorOptions, selectorVisible,
                 pc, zip, xmlQueue, imageQueue, blobStore, urlCount, assets, loads>>

\* switchView(view), the click listeners of viewRendered and viewRaw.
SwitchView(view) ==
  /\ pc = "idle"
  /\ currentView' = view
  /\ lastOp' = "switchView"
  /\ load' = NoLoad
  /\ UNCHANGED <<xmlFiles, currentXmlIndex, images, screen, selectorOptions,
                 selectorVisible, renderedView, rawView, pc, zip, xmlQueue, imageQueue,
                 blobStore, urlCount, assets, loads>>

\* The blob URLs reset revokes: the values of this.images.
revokedByReset(map) == MapValues(map)

\* reset(), the click listener of backBtn and retryBtn.
Reset ==
  /\ pc = "idle"
  /\ blobStore' = blobStore \ revokedByReset(images)
  /\ images' = <<>>
  /\ xmlFiles' = <<>>
  /\ currentXmlIndex' = 0
  /\ screen' = "upload"
  /\ renderedView' = <<>>
  /\ rawView' = <<>>
  /\ selectorVisible' = FALSE
  /\ assets' = <<>>
  /\ loads' = 0
  /\ load' = NoLoad
  /\ lastOp' = "reset"
  /\ UNCHANGED <<currentView, selectorOptions, pc, zip, xmlQueue, imageQueue, urlCount>>

Next ==
  \/ \E file \in FilePool : ProcessFile(file)
  \/ LoadAsyncRejected
  \/ LoadAsyncResolved
  \/ TextResolved
  \/ BlobResolved
  \/ EntryRejected
  \/ \E option \in 1..Len(selectorOptions) : SelectorChange(option)
  \/ \E view \in {"rendered", "raw"} : SwitchView(view)
  \/ Reset

Spec == Init /\ [][Next]_vars

(***************************************************************************)
(* C1.  Release of the blob URLs.                                          *)
(***************************************************************************)
\* C1: after reset() completes, every blob URL that extractContents created
\* since the previous reset has been revoked: the browser holds no blob URL
\* of this page any more.
ResetReleasesEveryHandle == lastOp = "reset" => blobStore = {}

(***************************************************************************)
(* C2.  The five keys of an asset resolve to it, the last registered wins. *)
(***************************************************************************)
\* The assets that registered `key`, given the keys of every asset registered
\* since the last reset.
registrants(keys, key) ==
  {i \in 1..Len(keys) : \E k \in 1..5 : keys[i][k] = key}

\* C2: for every registered asset and each of its five keys, findImageUrl
\* on that key returns the asset's blob URL, unless an asset registered later
\* registered the same key, and then it returns the URL of the last asset
\* that registered the key.
KeysResolveToLastRegistered ==
  LET keys == [i \in 1..Len(assets) |-> imageKeys(assets[i][1])]
  IN  \A i \in 1..Len(assets) : \A key \in {keys[i][k] : k \in 1..5} :
        LET regs == registrants(keys, key)
            last == CHOOSE j \in regs : \A m \in regs : m <= j
            url  == findImageUrl(images, key)
        IN  /\ url = assets[last][2]
            /\ (last = i => url = assets[i][2])

\* An asset whose key a later asset registered again is in the index,
\* next to a key that still belongs to the earlier asset.
KeysResolveWitness ==
  LET keys == [i \in 1..Len(assets) |-> imageKeys(assets[i][1])]
  IN  \E i \in 1..Len(assets) : \E k, n \in 1..5 :
        /\ \E j \in registrants(keys, keys[i][k]) : j > i /\ assets[j][2] # assets[i][2]
        /\ registrants(keys, keys[i][n]) = {i}
        /\ findImageUrl(images, keys[i][n]) = assets[i][2]
        /\ findImageUrl(images, keys[i][k]) # assets[i][2]

(***************************************************************************)
(* C3.  A load that fails leaves no partial session.                       *)
(***************************************************************************)
\* C3: when processFile ends in the error state, the document list, the
\* image index and the selection index are as they were when that load
\* began, or they are empty.
FailedLoadLeavesNoPartialSession ==
  lastOp = "loadError" =>
    \/ /\ xmlFiles = load.xmlFiles
       /\ images = load.images
       /\ currentXmlIndex = load.currentXmlIndex
    \/ /\ xmlFiles = <<>>
       /\ images = <<>>
       /\ currentXmlIndex = 0

(***************************************************************************)
(* C4.  The selection after a load, and what may change it.                *)
(***************************************************************************)
\* C4: after every successful load the selection index is 0 and the rendered
\* and raw views show the first document of the sorted list, whatever the
\* selection index was before; and the selection index changes only in a
\* successful load, a reset or a selector change.
SelectionFollowsLoad ==
  /\ [](lastOp = "loadOk" =>
          /\ currentXmlIndex = 0
          /\ xmlFiles # <<>>
          /\ renderedView = <<"<div class=\"xml-document\">">>
                              \o renderElement(xmlFiles[1].parsed, {}, images)
                              \o <<"</div>">>
          /\ rawView = formatXML(xmlFiles[1].content))
  /\ [][currentXmlIndex' # currentXmlIndex =>
          lastOp' \in {"loadOk", "reset", "selectorChange"}]_vars

\* A load succeeded that began with the second document selected and shows
\* another document than the one shown before.
SelectionFollowsLoadWitness ==
  /\ lastOp = "loadOk"
  /\ load.currentXmlIndex = 1
  /\ Len(load.xmlFiles) > 1
  /\ Len(xmlFiles) > 1
  /\ currentXmlIndex = 0
  /\ xmlFiles[1].content # load.xmlFiles[2].content

(***************************************************************************)
(* C5.  The selector after a load.                                         *)
(***************************************************************************)
\* The label updateXmlSelector gives a document.
optionLabel(xmlFile) ==
  xmlFile.name \o (IF xmlFile.hasError
                     THEN <<" ","(","p","a","r","s","e"," ","e","r","r","o","r",")">>
                     ELSE <<>>)

NameF2  == <<"f","2",".","x","m","l">>
NameF10 == <<"f","1","0",".","x","m","l">>

\* C5: after a successful load the selector offers exactly the archive's XML
\* entries, one option each, in ascending numeric-aware order of file name
\* (f2 before f10) whatever the order of the archive; option i has value i
\* and is labelled with the i-th document of the stored list.
SelectorOffersSortedDocuments ==
  lastOp = "loadOk" =>
    LET entries == SelectSeq(load.file.files, isXmlEntry)
        n       == Len(entries)
    IN  /\ Len(selectorOptions) = n
        /\ Len(xmlFiles) = n
        /\ {xmlFiles[i].path : i \in 1..n} = {entries[i].path : i \in 1..n}
        /\ \A i \in 1..n :
             /\ xmlFiles[i].name = SplitPop(xmlFiles[i].path, "/")
             /\ selectorOptions[i].value = numberToString(i - 1)
             /\ parseInt(selectorOptions[i].value) = i - 1
             /\ selectorOptions[i].textContent = optionLabel(xmlFiles[i])
        /\ \A i, j \in 1..n :
             /\ i < j => localeCompare(xmlFiles[i].name, xmlFiles[j].name) <= 0
             /\ xmlFiles[i].name = NameF2 /\ xmlFiles[j].name = NameF10 => i < j

\* The archive lists f10.xml before f2.xml and the selector offers f2.xml first.
SelectorOffersSortedWitness ==
  /\ lastOp = "loadOk"
  /\ Len(selectorOptions) = 2
  /\ selectorOptions[1].textContent = NameF2
  /\ selectorOptions[2].textContent = NameF10
  /\ SelectSeq(load.file.files, isXmlEntry)[1].path = NameF10

(***************************************************************************)
(* The document on display, for the claims about rendering.                *)
(***************************************************************************)
\* renderCurrentXML has just put a document of the list on display.
Displayed ==
  /\ lastOp \in {"loadOk", "selectorChange"}
  /\ currentXmlIndex + 1 \in 1..Len(xmlFiles)

shownRoot == xmlFiles[currentXmlIndex + 1].parsed

\* The elements of a tree in document order, each with its ancestors' tags.
allElements(root) == <<[node |-> root, anc |-> {}]>> \o descendants(root, {})

\* The output renderCurrentXML wraps into the document container.
shownHtml == SubSeq(renderedView, 2, Len(renderedView) - 1)

isImageLike(node) ==
  tagToLowerCase(node.tagName) \in {"img", "image", "figure", "graphic", "picture"}

RECURSIVE replaceAll(_, _, _)
\* html with every occurrence of the token sequence `old` replaced by `new`.
replaceAll(html, old, new) ==
  IF Len(html) < Len(old) \/ old = <<>>
    THEN html
    ELSE IF SubSeq(html, 1, Len(old)) = old
      THEN new \o replaceAll(SubSeq(html, Len(old) + 1, Len(html)), old, new)
      ELSE <<Head(html)>> \o replaceAll(Tail(html), old, new)

(***************************************************************************)
(* C6.  An image that is not found.                                        *)
(***************************************************************************)
\* The image-like elements of the shown document whose reference resolves
\* to nothing, by their position in allElements.
unresolvedImages ==
  LET els == allElements(shownRoot)
  IN  {k \in 1..Len(els) :
         /\ isImageLike(els[k].node)
         /\ imageSource(els[k].node) # <<>>
         /\ findImageUrl(images, imageSource(els[k].node)) = NotFound}

\* The marker for the unresolved image at position k.
missingMarker(k) ==
  <<"<div class=\"image-error\">Image not found: ">>
    \o escapeHtml(imageSource(allElements(shownRoot)[k].node)) \o <<"</div>">>

\* The index with the reference of the image at position k added to it.
resolvingIndex(k) ==
  MapSet(images, imageSource(allElements(shownRoot)[k].node), "blob:resolved")

\* No other image of the shown document has the reference of the image at
\* position k or resolves differently once that reference is in the index.
standsAlone(k) ==
  LET els == allElements(shownRoot)
  IN  \A m \in 1..Len(els) :
        (m # k /\ isImageLike(els[m].node)) =>
          /\ imageSource(els[m].node) # imageSource(els[k].node)
          /\ findImageUrl(resolvingIndex(k), imageSource(els[m].node))
               = findImageUrl(images, imageSource(els[m].node))

\* C6: an image-like element whose reference r matches no asset renders as
\* one error marker holding the escaped r, and the rest of the walk is as it
\* is when the image resolves: with r added to the index and no other image
\* of the document resolving differently, the output is the same but for
\* the image block standing where the marker stood.
MissingImageRendersMarker ==
  Displayed =>
    LET els == allElements(shownRoot)
    IN  \A k \in unresolvedImages :
          LET block == renderElement(els[k].node, els[k].anc, resolvingIndex(k))
          IN  /\ renderElement(els[k].node, els[k].anc, images) = missingMarker(k)
              /\ block # missingMarker(k)
              /\ standsAlone(k) =>
                   replaceAll(shownHtml, missingMarker(k), block)
                     = renderElement(shownRoot, {}, resolvingIndex(k))

\* The shown document holds an image that is not found, rendered between
\* siblings that render, one of them an image that is found.
MissingImageWitness ==
  /\ Displayed
  /\ \E k \in unresolvedImages :
       /\ standsAlone(k)
       /\ replaceAll(shownHtml, missingMarker(k), <<>>) # shownHtml
       /\ \E m \in 1..Len(allElements(shownRoot)) :
            /\ isImageLike(allElements(shownRoot)[m].node)
            /\ imageSource(allElements(shownRoot)[m].node) # <<>>
            /\ findImageUrl(images, imageSource(allElements(shownRoot)[m].node)) # NotFound

(***************************************************************************)
(* C7.  References that differ from the asset in case and directory.       *)
(***************************************************************************)
\* The references the resolver is asked for.
RefPool ==
  { <<"m","/","p","h",".","P","N","G">>,
    <<"p","h",".","p","n","g">>,
    <<".","/","m","/","p","h",".","p","n","g">>,
    <<"/","z","/","P","H",".","p","n","g">>,
    <<"x",".","p","n","g">>,
    <<"q","/","X",".","p","n","g">> }

\* The file name of a registered asset.
assetName(i) == SplitPop(assets[i][1], "/")

\* The last path segment of a reference.
lastSegment(ref) == SplitPop(ref, "/")

\* Asset i is the only registered asset with its file name, ignoring case.
nameIsUnique(i) ==
  \A j \in 1..Len(assets) :
    j # i => toLowerCase(assetName(j)) # toLowerCase(assetName(i))

\* C7 as stated: a reference whose last path segment equals, ignoring case,
\* the file name of an asset resolves to that asset, provided no other asset
\* has the same file name ignoring case.
NameMatchResolves ==
  \A ref \in RefPool : \A i \in 1..Len(assets) :
    (toLowerCase(lastSegment(ref)) = toLowerCase(assetName(i)) /\ nameIsUnique(i))
      => findImageUrl(images, ref) = assets[i][2]

\* C7 as amended: ... provided no other asset has, ignoring case, the same
\* file name or a file name that is the reference's last segment once its
\* final extension is removed.
NameMatchResolvesUnlessShadowed ==
  \A ref \in RefPool : \A i \in 1..Len(assets) :
    ( /\ toLowerCase(lastSegment(ref)) = toLowerCase(assetName(i))
      /\ nameIsUnique(i)
      /\ \A j \in 1..Len(assets) :
           j # i => toLowerCase(stripExtension(assetName(j))) # toLowerCase(lastSegment(ref)) )
      => findImageUrl(images, ref) = assets[i][2]

\* An asset is resolved from a reference that differs from its path in
\* directory, leading slash and case, next to another asset.
NameMatchWitness ==
  \E ref \in RefPool : \E i \in 1..Len(assets) :
    /\ Len(assets) > 1
    /\ toLowerCase(lastSegment(ref)) = toLowerCase(assetName(i))
    /\ lastSegment(ref) # assetName(i)
    /\ startsWith(ref, <<"/">>)
    /\ nameIsUnique(i)
    /\ \A j \in 1..Len(assets) :
         j # i => toLowerCase(stripExtension(assetName(j))) # toLowerCase(lastSegment(ref))
    /\ findImageUrl(images, ref) = assets[i][2]

(***************************************************************************)
(* C8.  The letter case of tag names.                                      *)
(***************************************************************************)
\* The spellings the model has for a tag name, its own among them.
spellings(tag) ==
  {tag, tagToLowerCase(tag)}
    \cup {p[1] : p \in {q \in TagCaseTable : q[2] = tagToLowerCase(tag)}}

RECURSIVE elementCount(_)
\* The number of elements of a subtree.
elementCount(node) ==
  IF node.nodeType = "TEXT_NODE"
    THEN 0
    ELSE 1 + Len(descendants(node, {}))

RECURSIVE respell(_, _, _)
RECURSIVE respellIn(_, _, _)
\* The tree with the tag of its k-th element in document order spelled `tag`.
respell(node, k, tag) ==
  IF k = 1
    THEN [node EXCEPT !.tagName = tag]
    ELSE [node EXCEPT !.childNodes = respellIn(node.childNodes, k - 1, tag)]

respellIn(nodes, k, tag) ==
  IF nodes = <<>>
    THEN <<>>
    ELSE LET n == elementCount(Head(nodes))
         IN  IF k <= n
               THEN <<respell(Head(nodes), k, tag)>> \o Tail(nodes)
               ELSE <<Head(nodes)>> \o respellIn(Tail(nodes), k - n, tag)

\* C8: rendering does not depend on the letter case of tag names: the shown
\* document renders the same with any one of its tag names spelled in
\* another case.
RenderingIgnoresTagCase ==
  Displayed =>
    \A k \in 1..Len(allElements(shownRoot)) :
      \A tag \in spellings(allElements(shownRoot)[k].node.tagName) :
        renderElement(respell(shownRoot, k, tag), {}, images)
          = renderElement(shownRoot, {}, images)

(***************************************************************************)
(* C9.  Elements the dispatch table does not know.                         *)
(***************************************************************************)
\* The escaped text of the non-blank text nodes among an element's children.
escapedText(element) ==
  Flatten([i \in 1..Len(element.childNodes) |->
             IF element.childNodes[i].nodeType = "TEXT_NODE"
                  /\ trim(element.childNodes[i].data) # <<>>
               THEN escapeHtml(element.childNodes[i].data)
               ELSE <<>>])

unknownElements ==
  LET els == allElements(shownRoot)
  IN  {k \in 1..Len(els) : tagToLowerCase(els[k].node.tagName) \notin dispatchTags}

\* C9: an element whose lower-cased tag is not in the dispatch table renders,
\* with a child element of any tag, as a block wrapper carrying the
\* lower-cased tag around its rendered children; without one, as an inline
\* wrapper carrying the tag around its escaped text when that is not blank,
\* and as the empty string when it is.
UnknownTagRendering ==
  Displayed =>
    LET els == allElements(shownRoot)
    IN  \A k \in unknownElements :
          LET e    == els[k].node
              tag  == tagToLowerCase(e.tagName)
              html == renderElement(e, els[k].anc, images)
          IN  IF \E i \in 1..Len(e.childNodes) : e.childNodes[i].nodeType = "ELEMENT_NODE"
                THEN html = <<"<div class=\"xml-element-block\" data-tag=\"", tag, "\">">>
                              \o renderChildren(e, els[k].anc, images) \o <<"</div>">>
                ELSE IF \E i \in 1..Len(escapedText(e)) : escapedText(e)[i] \notin WhiteSpace
                  THEN html = <<"<span class=\"xml-element\" data-tag=\"", tag, "\">">>
                                \o escapedText(e) \o <<"</span>">>
                  ELSE html = <<>>

\* The shown document holds unknown elements of each kind: one with a child
\* element that is no block tag, one with text only, one that is blank, and
\* one whose tag is not lower case.
UnknownTagWitness ==
  /\ Displayed
  /\ LET els == allElements(shownRoot)
     IN  /\ \E k \in unknownElements :
               /\ children(els[k].node) # <<>>
               /\ ~hasBlockElements(els[k].node)
         /\ \E k \in unknownElements :
               /\ children(els[k].node) = <<>>
               /\ renderElement(els[k].node, els[k].anc, images) # <<>>
         /\ \E k \in unknownElements :
               /\ els[k].node.childNodes # <<>>
               /\ renderElement(els[k].node, els[k].anc, images) = <<>>
         /\ \E k \in unknownElements :
               tagToLowerCase(els[k].node.tagName) # els[k].node.tagName

(***************************************************************************)
(* C10.  Lists.                                                            *)
(***************************************************************************)
listElements ==
  LET els == allElements(shownRoot)
  IN  {k \in 1..Len(els) : tagToLowerCase(els[k].node.tagName) \in {"ul", "ol", "list"}}

\* The direct children of an element that are named li, item or listitem.
listItems(element) ==
  SelectSeq(element.childNodes,
            LAMBDA n : n.nodeType = "ELEMENT_NODE" /\ n.tagName \in {"li", "item", "listitem"})

\* C10: a ul, ol or list element with a direct child li, item or listitem
\* renders as one list container (ol for tag ol, ul otherwise) holding one
\* list item per such child, in document order, each with that child's
\* rendered children, and nothing else; with no such child the container
\* holds the rendered output of all the element's children.
ListRendering ==
  Displayed =>
    LET els == allElements(shownRoot)
    IN  \A k \in listElements :
          LET e     == els[k].node
              below == els[k].anc \cup {e.tagName}
              items == listItems(e)
              open  == IF tagToLowerCase(e.tagName) = "ol"
                         THEN "<ol class=\"xml-list\">" ELSE "<ul class=\"xml-list\">"
              close == IF tagToLowerCase(e.tagName) = "ol" THEN "</ol>" ELSE "</ul>"
              inner == IF items # <<>>
                         THEN Flatten([i \in 1..Len(items) |->
                                <<"<li class=\"xml-list-item\">">>
                                  \o renderNodes(items[i].childNodes,
                                                 below \cup {items[i].tagName}, images)
                                  \o <<"</li>">>])
                         ELSE renderNodes(e.childNodes, below, images)
          IN  renderElement(e, els[k].anc, images) = <<open>> \o inner \o <<close>>

\* The shown document holds an ordered list with an item between children
\* that are no items, a list without items, and a list whose tag is not
\* lower case.
ListRenderingWitness ==
  /\ Displayed
  /\ LET els == allElements(shownRoot)
     IN  /\ \E k \in listElements :
               /\ tagToLowerCase(els[k].node.tagName) = "ol"
               /\ listItems(els[k].node) # <<>>
               /\ Len(listItems(els[k].node)) < Len(els[k].node.childNodes)
         /\ \E k \in listElements :
               /\ listItems(els[k].node) = <<>>
               /\ els[k].node.childNodes # <<>>
         /\ \E k \in listElements : els[k].node.tagName = "UL"

(***************************************************************************)
(* C11.  The caption of an image.                                          *)
(***************************************************************************)
\* The image block renderImage returns for a resolved URL and a caption.
imageBlock(imageUrl, caption) ==
  <<"\n                <div class=\"xml-image-container\">\n                    <img class=\"xml-image\" src=\"",
    imageUrl, "\" alt=\"">>
    \o escapeHtml(caption)
    \o <<"\" loading=\"lazy\">\n                    ">>
    \o (IF caption # <<>>
          THEN <<"<div class=\"xml-image-caption\">">> \o escapeHtml(caption) \o <<"</div>">>
          ELSE <<>>)
    \o <<"\n                </div>\n            ">>

\* The image-like elements of the shown document whose reference resolves,
\* by their position in allElements.
resolvedImages ==
  LET els == allElements(shownRoot)
  IN  {k \in 1..Len(els) :
         /\ isImageLike(els[k].node)
         /\ imageSource(els[k].node) # <<>>
         /\ findImageUrl(images, imageSource(els[k].node)) # NotFound}

\* The first non-empty of: the text of the first descendant named caption,
\* figcaption, title or alt; the alt attribute; the title attribute.
firstNonEmptyCaption(element) ==
  LET captions == {"caption", "figcaption", "title", "alt"}
      fromEl   == IF hasMatch(element, captions)
                    THEN textContent(querySelector(element, captions))
                    ELSE <<>>
  IN  IF fromEl # <<>>
        THEN fromEl
        ELSE IF getAttribute(element, "alt") # <<>>
          THEN getAttribute(element, "alt")
          ELSE getAttribute(element, "title")

\* C11: an image-like element whose reference resolves renders as the image
\* block whose alternate text and caption element carry the first non-empty
\* of the text of its first caption, figcaption, title or alt descendant, its
\* alt attribute and its title attribute, with a caption element only when
\* that caption is not empty.
CaptionIsFirstNonEmpty ==
  Displayed =>
    LET els == allElements(shownRoot)
    IN  \A k \in resolvedImages :
          renderElement(els[k].node, els[k].anc, images)
            = imageBlock(findImageUrl(images, imageSource(els[k].node)),
                         firstNonEmptyCaption(els[k].node))

(***************************************************************************)
(* C12.  The reference of an image.                                        *)
(***************************************************************************)
\* The first member of a sequence of strings that is not empty, else <<>>.
firstNonEmpty(values) ==
  IF \E i \in 1..Len(values) : values[i] # <<>>
    THEN values[CHOOSE i \in 1..Len(values) :
                  values[i] # <<>> /\ \A j \in 1..(i-1) : values[j] = <<>>]
    ELSE <<>>

\* The attribute names searched for a reference, in their order.
SourceAttributeOrder == <<"src", "href", "url", "source", "file", "path", "xlink:href">>

\* The reference of an image-like element: an attribute, else the first
\* descendant named source, src, file or path, else the only text child.
referenceOf(element) ==
  LET fromAttr == firstNonEmpty([i \in 1..Len(SourceAttributeOrder) |->
                                   getAttribute(element, SourceAttributeOrder[i])])
      nested   == querySelectorAll(element, {}, {"source", "src", "file", "path"})
      fromEl   == IF nested = <<>>
                    THEN <<>>
                    ELSE firstNonEmpty(<<trim(textContent(nested[1].node)),
                                         getAttribute(nested[1].node, "src")>>)
      fromText == IF Len(element.childNodes) = 1
                       /\ element.childNodes[1].nodeType = "TEXT_NODE"
                    THEN trim(element.childNodes[1].data)
                    ELSE <<>>
  IN  firstNonEmpty(<<fromAttr, fromEl, fromText>>)

imageElements ==
  LET els == allElements(shownRoot)
  IN  {k \in 1..Len(els) : isImageLike(els[k].node)}

\* C12: an image-like element is rendered from the reference that is the
\* first non-empty attribute among src, href, url, source, file, path and
\* xlink:href, else the trimmed text (else the src attribute) of its first
\* descendant named source, src, file or path, else the trimmed text of its
\* only child when that is a text node; the resolver is asked for that
\* reference, and without a reference the element renders the marker
\* 'Image source not found' whatever the index holds.
ReferenceSearchOrder ==
  Displayed =>
    LET els == allElements(shownRoot)
    IN  \A k \in imageElements :
          LET e    == els[k].node
              ref  == referenceOf(e)
              html == renderElement(e, els[k].anc, images)
          IN  IF ref = <<>>
                THEN html = <<"<div class=\"image-error\">Image source not found</div>">>
                ELSE IF findImageUrl(images, ref) = NotFound
                  THEN html = imageNotFound(ref)
                  ELSE html = imageBlock(findImageUrl(images, ref), imageCaption(e))

\* The shown document holds an image of each kind: two of the attributes set
\* with the one searched first written last, an empty src next to an href, a
\* reference from a nested element's src attribute, one from a nested
\* element's text that trimming shortens, one from the only text child, and
\* one with a nested element and no reference; references both resolve and
\* miss.
ReferenceSearchWitness ==
  /\ Displayed
  /\ LET els == allElements(shownRoot)
         e(k) == els[k].node
     IN  /\ \E k \in imageElements :
               /\ Len(e(k).attributes) = 2
               /\ e(k).attributes[1][1] = "url" /\ e(k).attributes[1][2] # <<>>
               /\ e(k).attributes[2][1] = "href"
               /\ referenceOf(e(k)) = e(k).attributes[2][2]
               /\ renderElement(e(k), els[k].anc, images) = imageNotFound(referenceOf(e(k)))
         /\ \E k \in imageElements :
               /\ \E i \in 1..Len(e(k).attributes) :
                    e(k).attributes[i] = <<"src", <<>>>>
               /\ referenceOf(e(k)) = getAttribute(e(k), "href")
               /\ findImageUrl(images, referenceOf(e(k))) # NotFound
         /\ \E k \in imageElements :
               /\ referenceOf(e(k)) = getAttribute(e(k), "xlink:href")
               /\ referenceOf(e(k)) # <<>>
         /\ \E k \in imageElements :
               /\ e(k).attributes = <<>>
               /\ hasMatch(e(k), {"file"})
               /\ referenceOf(e(k)) = getAttribute(querySelector(e(k), {"file"}), "src")
               /\ referenceOf(e(k)) # <<>>
         /\ \E k \in imageElements :
               /\ hasMatch(e(k), {"path"})
               /\ referenceOf(e(k)) = trim(textContent(querySelector(e(k), {"path"})))
               /\ referenceOf(e(k)) # textContent(querySelector(e(k), {"path"}))
         /\ \E k \in imageElements :
               /\ children(e(k)) = <<>>
               /\ e(k).attributes = <<>>
               /\ referenceOf(e(k)) # <<>>
               /\ referenceOf(e(k)) # textContent(e(k))
         /\ \E k \in imageElements :
               /\ children(e(k)) # <<>>
               /\ referenceOf(e(k)) = <<>>
               /\ renderElement(e(k), els[k].anc, images)
                    = <<"<div class=\"image-error\">Image source not found</div>">>

(***************************************************************************)
(* C13.  The substring scan of the resolver.                               *)
(***************************************************************************)
\* The references the resolver is asked for.
ScanRefPool ==
  { <<"X",".","p","n","g">>,
    <<"x","X">>,
    <<"p","n","g">>,
    <<"q",".","p","n","g">>,
    <<".","/","m","/","p","h",".","p","n","g">>,
    <<"h",".","p","n","g">> }

\* The reference without a leading "./" and then without a leading "/".
cleanRef(ref) ==
  LET a == IF Len(ref) >= 2 /\ SubSeq(ref, 1, 2) = <<".", "/">>
             THEN SubSeq(ref, 3, Len(ref)) ELSE ref
  IN  IF a # <<>> /\ a[1] = "/" THEN Tail(a) ELSE a

\* The six exact candidates of a reference, in order.
exactCandidates(ref) ==
  LET fileName == SplitPop(cleanRef(ref), "/")
  IN  <<ref, cleanRef(ref), fileName, toLowerCase(fileName),
        stripExtension(fileName), toLowerCase(stripExtension(fileName))>>

\* The candidates of a reference that are keys of the index, by position.
exactHits(ref) ==
  LET candidates == exactCandidates(ref)
      keys       == {images[i][1] : i \in 1..Len(images)}
  IN  {c \in 1..6 : candidates[c] \in keys}

\* The entries of the index the substring scan accepts for a reference.
scanHits(ref) ==
  LET fileName == SplitPop(cleanRef(ref), "/")
  IN  {i \in 1..Len(images) :
         \/ includes(images[i][1], fileName)
         \/ includes(fileName, SplitPop(images[i][1], "/"))}

\* The least member of a non-empty set of numbers.
least(S) == CHOOSE n \in S : \A m \in S : n <= m

\* C13: findImageUrl returns the handle under the first of the six exact
\* candidates that is a key of the index and scans only when none is; the
\* scan returns the handle of the first entry, in the order of the index,
\* whose key contains the file name or whose key's last path segment is
\* contained in the file name, and notFound exactly when no entry is.
ScanOnlyAfterExactMisses ==
  \A ref \in ScanRefPool :
    LET url   == findImageUrl(images, ref)
        exact == exactHits(ref)
        scan  == scanHits(ref)
    IN  /\ exact # {} => url = MapGet(images, exactCandidates(ref)[least(exact)])
        /\ (exact = {} /\ scan # {}) => url = images[least(scan)][2]
        /\ url = NotFound <=> (exact = {} /\ scan = {})

\* The index answers a reference exactly where the scan would have returned
\* another handle, answers one from the first of two scanned entries with
\* different handles, one by a key that contains the file name, one by a
\* key's last segment the file name contains, and misses one.
ScanWitness ==
  /\ \E ref \in ScanRefPool :
       /\ exactHits(ref) # {} /\ scanHits(ref) # {}
       /\ findImageUrl(images, ref) # images[least(scanHits(ref))][2]
  /\ \E ref \in ScanRefPool :
       /\ exactHits(ref) = {}
       /\ \E i, j \in scanHits(ref) : images[i][2] # images[j][2]
       /\ findImageUrl(images, ref) = images[least(scanHits(ref))][2]
  /\ \E ref \in ScanRefPool :
       /\ exactHits(ref) = {} /\ scanHits(ref) # {}
       /\ includes(images[least(scanHits(ref))][1], SplitPop(cleanRef(ref), "/"))
  /\ \E ref \in ScanRefPool :
       /\ exactHits(ref) = {} /\ scanHits(ref) # {}
       /\ ~includes(images[least(scanHits(ref))][1], SplitPop(cleanRef(ref), "/"))
  /\ \E ref \in ScanRefPool :
       /\ images # <<>>
       /\ findImageUrl(images, ref) = NotFound

====
